---- MODULE Spec2Model ----
(***************************************************************************)
(* Model of tower-resolve (src/src/lib.rs): a Connector composes a         *)
(* Resolve implementation and a cloneable ConnectService<SocketAddr>; its  *)
(* connect(target) returns a ConnectFuture whose poll() drives             *)
(* State::Resolving -> State::Connecting.                                  *)
(*                                                                         *)
(* The collaborators (the Resolve and ConnectService implementations and   *)
(* the futures they return) are recording test doubles: the resolver logs  *)
(* the targets it was asked to look up, an establisher instance logs the   *)
(* addresses it was asked to connect to, and every answer a sub-future     *)
(* gives to a poll is chosen by the environment.                           *)
(***************************************************************************)
EXTENDS Integers, Sequences, FiniteSets, TLC

\* ---- bounds ----
\* not-ready answers one sub-future may give
MaxNotReady == 1
\* polls of a ConnectFuture made after it has already returned an outcome
MaxRepolls == 1

\* polls of one ConnectFuture the caller makes at most; never reached, as a
\* sub-future runs out of not-ready answers and the repolls are bounded
MaxPolls == 2 * MaxNotReady + MaxRepolls + 2

\* ---- value universes ----
Ops == {"f1", "f2"}
Targets == {"svc-a", "bad-host"}
Addrs == {"10.0.0.5:443", "10.0.0.6:443"}
Conns == {"k1", "k2"}
ResolveErrors == {"NameNotFound", "Timeout"}
ConnectErrors == {"Refused", "Reset"}

\* futures 0.1 Poll<T, E>
NotReady == <<"NotReady">>
Ready(v) == <<"Ready", v>>
Err(e) == <<"Err", e>>

\* answers R::Future::poll can give
LookupAnswers == {NotReady} \cup {Ready(a) : a \in Addrs} \cup {Err(e) : e \in ResolveErrors}
\* answers C::Future::poll can give
ConnectAnswers == {NotReady} \cup {Ready(k) : k \in Conns} \cup {Err(e) : e \in ConnectErrors}

\* enum ConnectorError
ConnectorError_Resolve(e) == <<"Resolve", e>>
ConnectorError_Connect(e) == <<"Connect", e>>

\* enum State
Resolving(fut) == [tag |-> "Resolving", fut |-> fut]
Connecting(fut) == [tag |-> "Connecting", fut |-> fut]

VARIABLES
    slots,       \* the slots the caller uses for the futures it creates
    connector,   \* the Connector: [connect, resolver]
    futs,        \* Ops -> the ConnectFuture in that slot
    lookupLog,   \* Ops -> answers the slot's lookup future has given
    connectLog,  \* Ops -> answers the slot's connect future has given
    results,     \* Ops -> what each poll() of the slot's ConnectFuture returned
    loops,       \* Ops -> loop iterations of the most recent poll()
    released     \* Ops -> sub-futures dropped so far, in order

vars == <<slots, connector, futs, lookupLog, connectLog, results, loops, released>>

\* Resolve::lookup of the recording resolver: logs the target, returns a handle
lookup(resolver, target) ==
    [svc |-> [resolver EXCEPT !.lookups = Append(@, target)],
     fut |-> <<"lookup", target>>]

\* ConnectService<SocketAddr>::connect of the recording establisher
connect(svc, address) ==
    [svc |-> [svc EXCEPT !.attempts = Append(@, address)],
     fut |-> <<"connect", address>>]

\* Clone of the establisher: an independent value with the same contents
clone(svc) == svc

\* Connector::new
ConnectorNew(c, r) == [connect |-> c, resolver |-> r]

\* a slot in which no ConnectFuture has been created yet
NoFut == [life |-> "none", state |-> [tag |-> "None", fut |-> <<>>],
          connector |-> [attempts |-> <<>>]]

\* mutant: the connection attempt is started eagerly, next to the lookup
ConnectorConnect_eager(self, target) ==
    LET l == lookup(self.resolver, target)
        c == connect(clone(self.connect), "10.0.0.5:443")
    IN  [self |-> [self EXCEPT !.resolver = l.svc],
         fut  |-> [life |-> "live",
                   state |-> Resolving(l.fut),
                   connector |-> c.svc]]

\* <Connector as ConnectService<Target>>::connect
ConnectorConnect(self, target) ==
    LET l == lookup(self.resolver, target)
    IN  [self |-> [self EXCEPT !.resolver = l.svc],
         fut  |-> [life |-> "live",
                   state |-> Resolving(l.fut),
                   connector |-> clone(self.connect)]]

\* mutant: the connect future's error is passed on under the Resolve tag
map_err_Resolve(r) ==
    IF r[1] = "Err" THEN Err(ConnectorError_Resolve(r[2])) ELSE r

\* Result::map_err(|e| ConnectorError::Connect(e)) on the connect future's answer
map_err_Connect(r) ==
    IF r[1] = "Err" THEN Err(ConnectorError_Connect(r[2])) ELSE r

\* mutant: a lookup failure reported under the Connect tag
resolveErr_wrongTag(e) == Err(ConnectorError_Connect(e))

\* ConnectorError::Resolve(e) as poll's failure (the Err arm of the lookup match)
resolveErr(e) == Err(ConnectorError_Resolve(e))

\* mutant: the connection attempt is made on a fixed address, not the resolved one
resolved_fixedAddr(self, address) ==
    LET c == connect(self.connector, "10.0.0.5:443")
    IN  [self |-> [self EXCEPT !.connector = c.svc, !.state = Connecting(c.fut)],
         released |-> <<self.state.fut>>]

\* mutant: the connection attempt is issued twice, the second handle is kept
resolved_twice(self, address) ==
    LET c1 == connect(self.connector, address)
        c == connect(c1.svc, address)
    IN  [self |-> [self EXCEPT !.connector = c.svc, !.state = Connecting(c.fut)],
         released |-> <<self.state.fut>>]

\* mutant: the finished lookup future is kept alive next to the connect future
resolved_keepLookup(self, address) ==
    LET c == connect(self.connector, address)
    IN  [self |-> [self EXCEPT !.connector = c.svc, !.state = Connecting(c.fut)],
         released |-> <<>>]

\* poll's Resolving arm after Ready(address): start the connection attempt on
\* the held establisher copy and store State::Connecting; the assignment drops
\* the value `state` held before, i.e. the finished lookup future
resolved(self, address) ==
    LET c == connect(self.connector, address)
    IN  [self |-> [self EXCEPT !.connector = c.svc, !.state = Connecting(c.fut)],
         released |-> <<self.state.fut>>]

\* mutant: poll returns NotReady right after storing State::Connecting, without
\* going round the loop to poll the new connect future
pollLoop_yield(self, la, ca, acc) ==
    LET it == [acc EXCEPT !.iters = @ + 1] IN
    IF self.state.tag = "Resolving"
    THEN LET polled == [it EXCEPT !.lookupPolled = Append(@, la)] IN
         IF la[1] = "Ready"
         THEN LET r == resolved(self, la[2])
              IN  [polled EXCEPT !.self = r.self, !.result = NotReady,
                                 !.released = @ \o r.released]
         ELSE IF la[1] = "NotReady"
         THEN [polled EXCEPT !.self = self, !.result = NotReady]
         ELSE [polled EXCEPT !.self = self, !.result = resolveErr(la[2])]
    ELSE [it EXCEPT !.self = self,
                    !.connectPolled = Append(@, ca),
                    !.result = map_err_Connect(ca)]

\* mutant: the resolved address is dropped; poll returns NotReady and `state`
\* stays Resolving
pollLoop_lost(self, la, ca, acc) ==
    LET it == [acc EXCEPT !.iters = @ + 1] IN
    IF self.state.tag = "Resolving"
    THEN LET polled == [it EXCEPT !.lookupPolled = Append(@, la)] IN
         IF la[1] = "Ready" \/ la[1] = "NotReady"
         THEN [polled EXCEPT !.self = self, !.result = NotReady]
         ELSE [polled EXCEPT !.self = self, !.result = resolveErr(la[2])]
    ELSE [it EXCEPT !.self = self,
                    !.connectPolled = Append(@, ca),
                    !.result = map_err_Connect(ca)]

\* mutant: a failed connection attempt puts the future back into Resolving
pollLoop_retry(self, la, ca, acc) ==
    LET it == [acc EXCEPT !.iters = @ + 1] IN
    IF self.state.tag = "Resolving"
    THEN LET polled == [it EXCEPT !.lookupPolled = Append(@, la)] IN
         IF la[1] = "Ready"
         THEN LET r == resolved(self, la[2])
                  c == [it EXCEPT !.lookupPolled = Append(@, la),
                                  !.connectPolled = Append(@, ca),
                                  !.released = @ \o r.released]
              IN  IF ca[1] = "Err"
                  THEN [c EXCEPT !.self = [r.self EXCEPT !.state = self.state],
                                 !.iters = @ + 1,
                                 !.result = map_err_Connect(ca)]
                  ELSE [c EXCEPT !.self = r.self, !.iters = @ + 1,
                                 !.result = map_err_Connect(ca)]
         ELSE IF la[1] = "NotReady"
         THEN [polled EXCEPT !.self = self, !.result = NotReady]
         ELSE [polled EXCEPT !.self = self, !.result = resolveErr(la[2])]
    ELSE [it EXCEPT !.self = IF ca[1] = "Err"
                             THEN [self EXCEPT !.state = Resolving(<<"lookup", "svc-a">>)]
                             ELSE self,
                    !.connectPolled = Append(@, ca),
                    !.result = map_err_Connect(ca)]

\* mutant: while the lookup is still pending the establisher copy is already
\* asked for a connection; `state` stays Resolving
pollLoop_precon(self, la, ca, acc) ==
    LET it == [acc EXCEPT !.iters = @ + 1] IN
    IF self.state.tag = "Resolving"
    THEN LET polled == [it EXCEPT !.lookupPolled = Append(@, la)] IN
         IF la[1] = "Ready"
         THEN LET r == resolved(self, la[2])
              IN  [polled EXCEPT !.self = r.self, !.iters = @ + 1,
                                 !.connectPolled = Append(@, ca),
                                 !.released = @ \o r.released,
                                 !.result = map_err_Connect(ca)]
         ELSE IF la[1] = "NotReady"
         THEN [polled EXCEPT
                  !.self = [self EXCEPT !.connector =
                               connect(self.connector, "10.0.0.5:443").svc],
                  !.result = NotReady]
         ELSE [polled EXCEPT !.self = self, !.result = resolveErr(la[2])]
    ELSE [it EXCEPT !.self = self,
                    !.connectPolled = Append(@, ca),
                    !.result = map_err_Connect(ca)]

\* ConnectFuture::poll. la / ca are the answers the lookup / connect future
\* gives when this call polls it; acc accumulates what the call did.
RECURSIVE pollLoop(_, _, _, _)
pollLoop(self, la, ca, acc) ==
    LET it == [acc EXCEPT !.iters = @ + 1] IN
    IF self.state.tag = "Resolving"
    THEN LET polled == [it EXCEPT !.lookupPolled = Append(@, la)] IN
         IF la[1] = "Ready"
         THEN LET r == resolved(self, la[2])
              IN  pollLoop(r.self, la, ca,
                           [polled EXCEPT !.released = @ \o r.released])
         ELSE IF la[1] = "NotReady"
         THEN [polled EXCEPT !.self = self, !.result = NotReady]
         ELSE [polled EXCEPT !.self = self, !.result = resolveErr(la[2])]
    ELSE [it EXCEPT !.self = self,
                    !.connectPolled = Append(@, ca),
                    !.result = map_err_Connect(ca)]

poll(self, la, ca) ==
    pollLoop(self, la, ca,
             [self |-> self, result |-> NotReady, iters |-> 0,
              lookupPolled |-> <<>>, connectPolled |-> <<>>, released |-> <<>>])

\* Drop glue of ConnectFuture: drops the sub-future held in `state`
dropFuture(self) ==
    [self |-> [self EXCEPT !.life = "dropped"], released |-> <<self.state.fut>>]

\* ---- environment ----
NotReadyCount(log) == Cardinality({i \in 1..Len(log) : log[i] = NotReady})
\* outcomes (non-NotReady results) a ConnectFuture has returned so far
Outcomes(rs) == {i \in 1..Len(rs) : rs[i] # NotReady}

\* answers a sub-future may give next, given what it has answered so far
MayAnswer(all, log) ==
    {a \in all : a = NotReady => NotReadyCount(log) < MaxNotReady}

\* a freshly constructed Connector; no connect call made yet
Fresh ==
    /\ connector = ConnectorNew([attempts |-> <<>>], [lookups |-> <<>>])
    /\ futs = [o \in Ops |-> NoFut]
    /\ lookupLog = [o \in Ops |-> <<>>]
    /\ connectLog = [o \in Ops |-> <<>>]
    /\ results = [o \in Ops |-> <<>>]
    /\ loops = [o \in Ops |-> 0]
    /\ released = [o \in Ops |-> <<>>]

\* the caller creates one ConnectFuture
Init ==
    /\ slots = {"f1"}
    /\ Fresh

\* mutant: the Connector keeps the in-flight state itself, so a connect call
\* replaces the state of every ConnectFuture that is still live
Connect_clobber(o, t) ==
    /\ o \in slots
    /\ futs[o].life = "none"
    /\ LET r == ConnectorConnect(connector, t)
       IN  /\ connector' = r.self
           /\ futs' = [p \in Ops |->
                          IF p = o THEN r.fut
                          ELSE IF futs[p].life = "live"
                               THEN [futs[p] EXCEPT !.state = r.fut.state]
                               ELSE futs[p]]
    /\ UNCHANGED <<slots, lookupLog, connectLog, results, loops, released>>

\* the caller invokes Connector::connect(target); the future goes in slot o
Connect(o, t) ==
    /\ o \in slots
    /\ futs[o].life = "none"
    /\ LET r == ConnectorConnect(connector, t)
       IN  /\ connector' = r.self
           /\ futs' = [futs EXCEPT ![o] = r.fut]
    /\ UNCHANGED <<slots, lookupLog, connectLog, results, loops, released>>

\* mutant: the ConnectFuture connects through the Connector's own establisher
\* (a shared handle instead of a clone), so what the attempt does to the
\* establisher shows in the Connector and in every copy taken later
Poll_shared(o) ==
    /\ futs[o].life = "live"
    /\ Len(results[o]) < MaxPolls
    /\ Cardinality(Outcomes(results[o])) <= MaxRepolls
    /\ \E la \in MayAnswer(LookupAnswers, lookupLog[o]),
          ca \in MayAnswer(ConnectAnswers, connectLog[o]) :
          LET r == poll(futs[o], la, ca)
          IN  /\ futs' = [futs EXCEPT ![o] = r.self]
              /\ connector' = [connector EXCEPT !.connect = r.self.connector]
              /\ lookupLog' = [lookupLog EXCEPT ![o] = @ \o r.lookupPolled]
              /\ connectLog' = [connectLog EXCEPT ![o] = @ \o r.connectPolled]
              /\ results' = [results EXCEPT ![o] = Append(@, r.result)]
              /\ loops' = [loops EXCEPT ![o] = r.iters]
              /\ released' = [released EXCEPT ![o] = @ \o r.released]
    /\ UNCHANGED slots

\* the caller's scheduler invokes ConnectFuture::poll on slot o
Poll(o) ==
    /\ futs[o].life = "live"
    /\ Len(results[o]) < MaxPolls
    /\ Cardinality(Outcomes(results[o])) <= MaxRepolls
    /\ \E la \in MayAnswer(LookupAnswers, lookupLog[o]),
          ca \in MayAnswer(ConnectAnswers, connectLog[o]) :
          LET r == poll(futs[o], la, ca)
          IN  /\ futs' = [futs EXCEPT ![o] = r.self]
              /\ lookupLog' = [lookupLog EXCEPT ![o] = @ \o r.lookupPolled]
              /\ connectLog' = [connectLog EXCEPT ![o] = @ \o r.connectPolled]
              /\ results' = [results EXCEPT ![o] = Append(@, r.result)]
              /\ loops' = [loops EXCEPT ![o] = r.iters]
              /\ released' = [released EXCEPT ![o] = @ \o r.released]
    /\ UNCHANGED <<slots, connector>>

\* the caller discards the ConnectFuture in slot o
Drop(o) ==
    /\ futs[o].life = "live"
    /\ LET r == dropFuture(futs[o])
       IN  /\ futs' = [futs EXCEPT ![o] = r.self]
           /\ released' = [released EXCEPT ![o] = @ \o r.released]
    /\ UNCHANGED <<slots, connector, lookupLog, connectLog, results, loops>>

Next ==
    \/ \E o \in Ops, t \in Targets : Connect(o, t)
    \/ \E o \in Ops : Poll(o)
    \/ \E o \in Ops : Drop(o)

Spec == Init /\ [][Next]_vars

\* the caller's scheduler keeps polling a ConnectFuture that has not yet
\* returned an outcome (for as long as the caller has not dropped it)
Advance(o) == Outcomes(results[o]) = {} /\ Poll(o)

LiveSpec == Init /\ [][Next]_vars /\ \A o \in Ops : WF_vars(Advance(o))

\* the caller makes two connect calls on the same Connector and drives each
\* ConnectFuture, in any interleaving, until it returns an outcome or is dropped
PairInit ==
    /\ slots = Ops
    /\ Fresh

PairNext ==
    \/ \E o \in Ops, t \in Targets : Connect(o, t)
    \/ \E o \in Ops : Advance(o)
    \/ \E o \in Ops : Drop(o)

PairSpec == PairInit /\ [][PairNext]_vars

\* ---- properties ----
Last(s) == s[Len(s)]
\* addresses the establisher copy of slot o was asked to connect to
attempts(o) == futs[o].connector.attempts
\* the lookup future of slot o has answered Ready(a) / the connect future Ready(k)
LookupGave(o, a) == lookupLog[o] # <<>> /\ Last(lookupLog[o]) = Ready(a)
ConnectGave(o, k) == connectLog[o] # <<>> /\ Last(connectLog[o]) = Ready(k)
LookupFailed(o, e) == lookupLog[o] # <<>> /\ Last(lookupLog[o]) = Err(e)
ConnectFailed(o, e) == connectLog[o] # <<>> /\ Last(connectLog[o]) = Err(e)
Returned(o, r) == results[o] # <<>> /\ Last(results[o])[1] = r[1] /\ Last(results[o]) = r

\* C1: when the lookup future yields address a and the connect future then
\* yields connection k, poll returns exactly Ready(k); k comes from the connect
\* future the held establisher copy created for exactly a, and a is the only
\* address that copy was ever handed. Conversely a Ready result is always the
\* connect future's own answer.
C1_ConnectionOfResolvedAddress ==
    \A o \in Ops :
        /\ \A a \in Addrs, k \in Conns :
              (LookupGave(o, a) /\ ConnectGave(o, k)) =>
                  /\ Returned(o, Ready(k))
                  /\ attempts(o) = <<a>>
                  /\ futs[o].state = Connecting(<<"connect", a>>)
        /\ \A k \in Conns :
              Returned(o, Ready(k)) => ConnectGave(o, k)
        /\ \A a \in Addrs :
              LookupGave(o, a) => attempts(o) = <<a>>

C1_Witness ==
    \E o \in Ops : \E a \in Addrs, k \in Conns :
        /\ LookupGave(o, a) /\ ConnectGave(o, k)
        /\ Returned(o, Ready(k))
        /\ a # "10.0.0.5:443"

\* C2: the poll that sees the lookup future fail with e returns
\* Err(ConnectorError::Resolve(e)), and up to then the establisher copy's
\* connect has been invoked zero times and no connect future was polled.
C2_ResolveFailure ==
    \A o \in Ops :
        /\ \A e \in ResolveErrors :
              LookupFailed(o, e) =>
                  /\ Returned(o, Err(ConnectorError_Resolve(e)))
                  /\ attempts(o) = <<>>
                  /\ connectLog[o] = <<>>
                  /\ futs[o].state.tag = "Resolving"
        /\ \A e \in ResolveErrors :
              Returned(o, Err(ConnectorError_Resolve(e))) => LookupFailed(o, e)

C2_Witness ==
    \E o \in Ops :
        /\ LookupFailed(o, "NameNotFound")
        /\ Returned(o, Err(ConnectorError_Resolve("NameNotFound")))
        /\ attempts(o) = <<>>

\* C3: when the lookup future yielded address a and the connect future fails
\* with e, the poll that sees e returns Err(ConnectorError::Connect(e)), and
\* exactly one connect attempt was made, on a.
C3_ConnectFailure ==
    \A o \in Ops :
        /\ \A e \in ConnectErrors :
              ConnectFailed(o, e) =>
                  /\ Returned(o, Err(ConnectorError_Connect(e)))
                  /\ \E a \in Addrs : LookupGave(o, a) /\ attempts(o) = <<a>>
        /\ \A e \in ConnectErrors :
              Returned(o, Err(ConnectorError_Connect(e))) => ConnectFailed(o, e)

C3_Witness ==
    \E o \in Ops : \E a \in Addrs :
        /\ LookupGave(o, a)
        /\ ConnectFailed(o, "Refused")
        /\ Returned(o, Err(ConnectorError_Connect("Refused")))
        /\ attempts(o) = <<a>>

\* C4: a connect attempt (an invocation of the establisher copy, a connect
\* future held in `state`, or a poll of a connect future) exists only once the
\* lookup future has been polled and answered Ready with an address; it never
\* exists while the lookup is unpolled, pending or failed.
C4_ConnectAfterResolve ==
    \A o \in Ops :
        (\/ attempts(o) # <<>>
         \/ futs[o].state.tag = "Connecting"
         \/ connectLog[o] # <<>>)
        => \E a \in Addrs : LookupGave(o, a)

C4_Witness ==
    \E o \in Ops :
        /\ attempts(o) # <<>>
        /\ Len(lookupLog[o]) >= 2
        /\ lookupLog[o][1] = NotReady

\* C5: per ConnectFuture, however often it is polled and whatever the
\* sub-futures answer, the resolver's lookup was invoked exactly once (in
\* Connector::connect), and the establisher's connect at most once: exactly
\* once if the lookup future yielded an address, otherwise never.
C5_OneLookupAtMostOneConnect ==
    /\ Len(connector.resolver.lookups) = Cardinality({o \in Ops : futs[o].life # "none"})
    /\ \A o \in Ops :
          /\ (futs[o].life # "none" /\ futs[o].state.tag = "Resolving") =>
                \E i \in 1..Len(connector.resolver.lookups) :
                    futs[o].state.fut = <<"lookup", connector.resolver.lookups[i]>>
          /\ Len(attempts(o)) <= 1
          /\ Len(attempts(o)) = 1 <=> (\E a \in Addrs : LookupGave(o, a))

C5_Witness ==
    \E o \in Ops :
        /\ Len(results[o]) >= 3
        /\ Len(attempts(o)) = 1
        /\ Len(connector.resolver.lookups) = 1

\* C6: when the lookup future is Ready with an address on the first poll, that
\* same poll also polls the connect future it created (two loop iterations),
\* and what it returns is the connect future's answer: the connection or the
\* tagged connect error if that answer is ready. A NotReady returned in state
\* Connecting is always the connect future's own NotReady.
C6_TransitionWithinOnePoll ==
    \A o \in Ops :
        /\ (results[o] # <<>> /\ lookupLog[o] # <<>> /\ lookupLog[o][1][1] = "Ready") =>
              /\ Len(connectLog[o]) = Len(results[o])
              /\ results[o][1][1] = connectLog[o][1][1]
              /\ connectLog[o][1][1] = "Ready" => results[o][1] = connectLog[o][1]
              /\ connectLog[o][1][1] = "Err" =>
                    results[o][1] = Err(ConnectorError_Connect(connectLog[o][1][2]))
              /\ Len(results[o]) = 1 => loops[o] = 2
        /\ (Returned(o, NotReady) /\ futs[o].state.tag = "Connecting") =>
              connectLog[o] # <<>> /\ Last(connectLog[o]) = NotReady

C6_Witness ==
    \E o \in Ops : \E a \in Addrs, k \in Conns :
        /\ lookupLog[o] = <<Ready(a)>>
        /\ connectLog[o] = <<Ready(k)>>
        /\ Len(results[o]) = 1
        /\ Returned(o, Ready(k))

\* the scenario of C7: lookup NotReady then Ready(a), connect NotReady then Ready(k)
C7_Scenario(o, a, k) ==
    /\ Len(lookupLog[o]) = 2 /\ lookupLog[o][1] = NotReady /\ lookupLog[o][2] = Ready(a)
    /\ Len(connectLog[o]) = 2 /\ connectLog[o][1] = NotReady /\ connectLog[o][2] = Ready(k)

\* C7 as stated: in the scenario the ConnectFuture completes in two polls
\* with the connection as the result.
C7_TwoPolls ==
    \A o \in Ops : \A a \in Addrs, k \in Conns :
        C7_Scenario(o, a, k) => Len(results[o]) = 2 /\ Returned(o, Ready(k))

\* C7 amended: in the scenario the ConnectFuture completes in three polls:
\* the first returns NotReady (lookup pending), the second NotReady (lookup
\* ready, connect pending), the third returns the connection.
C7_ThreePolls ==
    \A o \in Ops : \A a \in Addrs, k \in Conns :
        C7_Scenario(o, a, k) =>
            /\ Len(results[o]) = 3
            /\ results[o][1] = NotReady
            /\ results[o][2] = NotReady
            /\ Returned(o, Ready(k))

C7_Witness ==
    \E o \in Ops :
        /\ futs[o].state.fut = <<"connect", "10.0.0.5:443">>
        /\ C7_Scenario(o, "10.0.0.5:443", "k1")
        /\ Returned(o, Ready("k1"))

\* C8 as stated: once a poll has returned an outcome (a connection or a tagged
\* failure), no later poll polls the lookup or connect future or returns
\* another result for that ConnectFuture.
C8_OutcomeConsumes ==
    [][\A o \in Ops :
          Outcomes(results[o]) # {} =>
              /\ results'[o] = results[o]
              /\ lookupLog'[o] = lookupLog[o]
              /\ connectLog'[o] = connectLog[o]]_vars

\* first answer other than NotReady in a log
FirstReady(log) ==
    log[CHOOSE i \in 1..Len(log) :
            /\ log[i] # NotReady
            /\ \A j \in 1..(i - 1) : log[j] = NotReady]
HasReady(log) == \E i \in 1..Len(log) : log[i] # NotReady

\* C9: a ConnectFuture that keeps being polled, with sub-futures that answer
\* ready after finitely many not-ready answers, eventually returns an outcome
\* (unless the caller drops it first); if the first ready answers of the
\* lookup and of the connect future are both successes, its first outcome is
\* that success; every poll runs at most two loop iterations.
C9_EventuallyOutcome ==
    /\ \A o \in Ops :
          (futs[o].life = "live") ~>
              (futs[o].life = "dropped" \/ Outcomes(results[o]) # {})
    /\ [](\A o \in Ops :
            /\ loops[o] <= 2
            /\ Len(results[o]) < MaxPolls
            /\ (/\ HasReady(lookupLog[o]) /\ FirstReady(lookupLog[o])[1] = "Ready"
                /\ HasReady(connectLog[o]) /\ FirstReady(connectLog[o])[1] = "Ready")
               => /\ HasReady(results[o])
                  /\ FirstReady(results[o])[1] = "Ready"
                  /\ FirstReady(results[o]) = FirstReady(connectLog[o]))

C9_Witness ==
    \E o \in Ops :
        /\ Len(results[o]) = 2 * MaxNotReady + 1
        /\ Returned(o, Ready("k2"))
        /\ loops[o] = 1

\* C10: a dropped ConnectFuture that was Resolving has released exactly its
\* lookup future and never created a connect future; one that was Connecting
\* has released the lookup future when `state` changed and the connect future
\* at the drop, each once. A live ConnectFuture owns exactly one sub-future
\* that is not released: every other one created for it has been released.
C10_DropReleasesLiveFuture ==
    \A o \in Ops :
        LET st == futs[o].state
            life == futs[o].life
        IN  /\ life = "none" => released[o] = <<>>
            /\ (life # "none" /\ st.tag = "Resolving") =>
                  /\ st.fut[1] = "lookup"
                  /\ attempts(o) = <<>>
                  /\ released[o] = IF life = "live" THEN <<>> ELSE <<st.fut>>
            /\ (life # "none" /\ st.tag = "Connecting") =>
                  /\ Len(attempts(o)) = 1
                  /\ st.fut = <<"connect", attempts(o)[1]>>
                  /\ Len(released[o]) = IF life = "live" THEN 1 ELSE 2
                  /\ released[o][1][1] = "lookup"
                  /\ life = "dropped" => released[o][2] = st.fut
            /\ 1 + Len(attempts(o)) - Len(released[o])
                  = IF life = "live" THEN 1 ELSE IF life = "dropped" THEN 0 ELSE 1

C10_Witness ==
    \E o \in Ops :
        /\ futs[o].life = "dropped"
        /\ futs[o].state.tag = "Connecting"
        /\ Len(released[o]) = 2
        /\ Outcomes(results[o]) = {}

\* C11: Connector::connect does no advancement work. The step that creates a
\* ConnectFuture invokes the resolver's lookup once, on the given target, and
\* hands the future a copy of the establisher; it polls no sub-future, does
\* not invoke the establisher's connect, and the new future is in state
\* Resolving holding the handle of that lookup.
C11_ConnectOnlyStartsLookup ==
    [][\A o \in Ops :
          (futs[o].life = "none" /\ futs'[o].life # "none") =>
              /\ futs'[o].life = "live"
              /\ futs'[o].state.tag = "Resolving"
              /\ Len(connector'.resolver.lookups) = Len(connector.resolver.lookups) + 1
              /\ futs'[o].state.fut = <<"lookup", Last(connector'.resolver.lookups)>>
              /\ futs'[o].connector = connector.connect
              /\ futs'[o].connector.attempts = <<>>
              /\ connector'.connect = connector.connect
              /\ lookupLog'[o] = <<>> /\ connectLog'[o] = <<>>
              /\ results'[o] = <<>> /\ released'[o] = <<>> /\ loops'[o] = 0]_vars

C11_Witness ==
    \E o \in Ops :
        /\ futs[o].life = "live"
        /\ futs[o].state = Resolving(<<"lookup", "svc-a">>)
        /\ results[o] = <<>>
        /\ lookupLog[o] = <<>>

\* what poll returns for an answer of the lookup / of the connect future
TagLookup(a) == IF a[1] = "Err" THEN Err(ConnectorError_Resolve(a[2])) ELSE a
TagConnect(a) == IF a[1] = "Err" THEN Err(ConnectorError_Connect(a[2])) ELSE a
\* lookup answers of slot o that ended a poll (every one but Ready(address))
LookupEnded(o) == Cardinality({i \in 1..Len(lookupLog[o]) : lookupLog[o][i][1] # "Ready"})

\* the results a ConnectFuture running alone returns on the answers its
\* sub-futures gave: each lookup answer other than Ready(address), then each
\* connect answer, tagged with its origin
SoloResults(o) ==
    [i \in 1..(LookupEnded(o) + Len(connectLog[o])) |->
        IF i <= LookupEnded(o)
        THEN TagLookup(lookupLog[o][i])
        ELSE TagConnect(connectLog[o][i - LookupEnded(o)])]

\* everything the model holds for slot o
Slot(o) == <<futs[o], lookupLog[o], connectLog[o], results[o], loops[o], released[o]>>
SlotNext(o) == <<futs'[o], lookupLog'[o], connectLog'[o], results'[o], loops'[o], released'[o]>>

\* C12: two ConnectFutures created by successive calls on one Connector are
\* independent. Any step (connect call, poll or drop) that changes one of
\* them leaves the other one's state, sub-future, establisher copy and history
\* unchanged, and under every interleaving each returns exactly the results it
\* returns alone on the answers its own sub-futures gave.
C12_Independent ==
    /\ [][\A o \in Ops : \A p \in Ops \ {o} :
             SlotNext(o) # Slot(o) => SlotNext(p) = Slot(p)]_vars
    /\ [](\A o \in Ops :
             /\ Len(results[o]) = LookupEnded(o) + Len(connectLog[o])
             /\ \A i \in 1..Len(results[o]) :
                   /\ results[o][i][1] = SoloResults(o)[i][1]
                   /\ results[o][i] = SoloResults(o)[i]
             /\ futs[o].state.tag = "Connecting" =>
                   /\ \E a \in Addrs : LookupGave(o, a) /\ attempts(o) = <<a>>
                   /\ futs[o].state.fut = <<"connect", attempts(o)[1]>>
             /\ futs[o].state.tag = "Resolving" =>
                   /\ attempts(o) = <<>>
                   /\ ~ \E a \in Addrs : LookupGave(o, a))

C12_Witness ==
    /\ futs["f1"].life = "live" /\ futs["f2"].life = "live"
    /\ futs["f1"].state.tag = "Connecting" /\ futs["f2"].state.tag = "Resolving"
    /\ Returned("f1", Ready("k1"))
    /\ Returned("f2", Err(ConnectorError_Resolve("Timeout")))
    /\ Len(results["f1"]) = 3 /\ Len(results["f2"]) = 2
    /\ attempts("f1") # <<>>

\* C13: the state of a ConnectFuture is always exactly one of Resolving and
\* Connecting, and the only change a step can make to it is Resolving ->
\* Connecting: once Connecting it keeps that state, with the same connect
\* future, whatever the connect future answers.
C13_OneWay ==
    /\ [](\A o \in Ops :
             futs[o].life # "none" =>
                 /\ futs[o].state.tag \in {"Resolving", "Connecting"}
                 /\ futs[o].state.fut[1] =
                       (IF futs[o].state.tag = "Resolving" THEN "lookup" ELSE "connect"))
    /\ [][\A o \in Ops :
             futs[o].life # "none" =>
                 /\ futs[o].state.tag = "Resolving" =>
                       \/ futs'[o].state = futs[o].state
                       \/ futs'[o].state.tag = "Connecting"
                 /\ futs[o].state.tag = "Connecting" =>
                       futs'[o].state = futs[o].state]_vars

C13_Witness ==
    \E o \in Ops :
        /\ futs[o].life = "live"
        /\ futs[o].state.tag = "Connecting"
        /\ Len(connectLog[o]) >= 2
        /\ connectLog[o][1][1] = "Err"

\* C14: a poll in state Resolving whose lookup poll answers NotReady returns
\* NotReady and changes nothing: same state with the same lookup future, the
\* establisher copy not invoked, no connect future created or polled, nothing
\* released. A poll in state Connecting whose connect poll answers NotReady
\* returns NotReady and leaves state Connecting with the same connect future.
C14_NotReadyChangesNothing ==
    [][\A o \in Ops :
          /\ (/\ futs[o].life = "live" /\ futs[o].state.tag = "Resolving"
              /\ lookupLog'[o] = Append(lookupLog[o], NotReady)) =>
                 /\ results'[o] = Append(results[o], NotReady)
                 /\ futs'[o] = futs[o]
                 /\ connectLog'[o] = connectLog[o]
                 /\ released'[o] = released[o]
                 /\ connector' = connector
          /\ (/\ futs[o].life = "live" /\ futs[o].state.tag = "Connecting"
              /\ connectLog'[o] = Append(connectLog[o], NotReady)) =>
                 /\ results'[o] = Append(results[o], NotReady)
                 /\ futs'[o] = futs[o]
                 /\ lookupLog'[o] = lookupLog[o]
                 /\ released'[o] = released[o]
                 /\ connector' = connector]_vars

C14_Witness ==
    \E o \in Ops :
        /\ futs[o].life = "live"
        /\ futs[o].state.tag = "Resolving"
        /\ lookupLog[o] = <<NotReady>>
        /\ results[o] = <<NotReady>>
        /\ attempts(o) = <<>>

\* C15: a poll returns NotReady only if the sub-future held in `state` at the
\* end of that poll was polled during that same poll and answered NotReady;
\* this includes a connect future created in that very poll.
C15_NotReadyFromLiveFuture ==
    [][\A o \in Ops :
          (/\ Len(results'[o]) = Len(results[o]) + 1
           /\ Last(results'[o]) = NotReady) =>
              IF futs'[o].state.tag = "Connecting"
              THEN /\ Len(connectLog'[o]) = Len(connectLog[o]) + 1
                   /\ Last(connectLog'[o]) = NotReady
              ELSE /\ Len(lookupLog'[o]) = Len(lookupLog[o]) + 1
                   /\ Last(lookupLog'[o]) = NotReady]_vars

C15_Witness ==
    \E o \in Ops :
        /\ Len(lookupLog[o]) = 1 /\ lookupLog[o][1][1] = "Ready"
        /\ connectLog[o] = <<NotReady>>
        /\ results[o] = <<NotReady>>
        /\ futs[o].state.tag = "Connecting"

\* C16: one poll polls the lookup future at most once and the connect future
\* at most once; a poll that starts in state Connecting polls only the
\* connect future; and the lookup future is never polled again after it
\* answered Ready with an address.
C16_PollsPerCall ==
    /\ [][\A o \in Ops :
             /\ Len(lookupLog'[o]) <= Len(lookupLog[o]) + 1
             /\ Len(connectLog'[o]) <= Len(connectLog[o]) + 1
             /\ (futs[o].state.tag = "Connecting" /\ results'[o] # results[o]) =>
                   /\ lookupLog'[o] = lookupLog[o]
                   /\ Len(connectLog'[o]) = Len(connectLog[o]) + 1
             /\ (\E a \in Addrs : LookupGave(o, a)) => lookupLog'[o] = lookupLog[o]]_vars
    /\ [](\A o \in Ops : \A i \in 1..Len(lookupLog[o]) :
             lookupLog[o][i][1] = "Ready" => i = Len(lookupLog[o]))

C16_Witness ==
    \E o \in Ops :
        /\ Len(lookupLog[o]) = 2
        /\ lookupLog[o][1][1] = "Err"
        /\ lookupLog[o][2][1] = "Ready"
        /\ Len(connectLog[o]) = 2
        /\ Len(results[o]) = 3

\* C17: the establisher stored in the Connector is never used to connect:
\* no connect call, poll or drop changes it, every connect attempt is recorded
\* in the copy held by the ConnectFuture that made it, and a ConnectFuture
\* created after another one's attempt starts with a copy that shows none.
C17_ConnectorEstablisherUntouched ==
    /\ [](/\ connector.connect = [attempts |-> <<>>]
          /\ \A o \in Ops :
                /\ (futs[o].life # "none" /\ futs[o].state.tag = "Resolving") =>
                      attempts(o) = <<>>
                /\ futs[o].state.tag = "Connecting" =>
                      futs[o].state.fut = <<"connect", Last(attempts(o))>>
                /\ Len(attempts(o)) = IF futs[o].state.tag = "Connecting" THEN 1 ELSE 0)
    /\ [][connector'.connect = connector.connect]_vars

C17_Witness ==
    /\ connector.resolver.lookups = <<"svc-a", "bad-host">>
    /\ futs["f1"].state.tag = "Connecting"
    /\ released["f1"] = <<<<"lookup", "svc-a">>>>
    /\ attempts("f1") = <<"10.0.0.6:443">>
    /\ futs["f2"].life = "live"
    /\ futs["f2"].state = Resolving(<<"lookup", "bad-host">>)
    /\ attempts("f2") = <<>>
    /\ connector.connect.attempts = <<>>

====
